---- MODULE Spec2Model ----
(***************************************************************************)
(* State-machine model of the PyDracula view layer:                        *)
(*   src/views/main_window_view.py  (class MainWindowView)                 *)
(*   src/main.py                    (class MainWindow, the controller)     *)
(*                                                                         *)
(* Texts that the code transforms (menu ids, page titles) are sequences of *)
(* one-character strings; label texts are sequences of such characters    *)
(* and of literal fragments.  Times are in milliseconds.                   *)
(***************************************************************************)
EXTENDS Integers, Sequences, FiniteSets

VARIABLES
    pc,            \* position in MainWindow.__init__ / MainWindowView.__init__
    connected,     \* controller slots connected to the view's signals
    selected,      \* menu id -> dynamic property "selected" of its button
    checked,       \* menu id -> checked state of its button
    currentIndex,  \* stackedWidget.currentIndex()
    title,         \* titleRightInfo.text()
    enabled,       \* control name -> isEnabled()
    table,         \* tableWidget: sequence of rows, row = column -> item
    minW, maxW,    \* panel -> minimumWidth / maximumWidth
    width,         \* panel -> width()
    anims,         \* panel -> width animations in flight, in start order
    credits,       \* creditsLabel.text()
    timers,        \* pending QTimer.singleShot reversions: remaining ms
    fbEffect,      \* self._feedback_opacity is not None
    opacity,       \* opacity of the effect, in thousandths
    fbGroups,      \* feedback animation groups in flight: elapsed ms
    loadingVisible, \* loadingLabel is not hidden
    stackVisible,  \* stackedWidget is not hidden
    \* ---- history variables (observations, not program state) ----
    clicks,        \* number of menu-button clicks processed so far
    emits,         \* number of menu_changed emissions so far
    lastClicked,   \* id of the menu button clicked most recently
    lastEmitted,   \* payload of the most recent menu_changed emission
    observed,      \* what a slot of menu_changed saw of the view at that emission
    lastOp,        \* name of the most recent operation
    lastMenu,      \* argument of the most recent _select_menu call
    prevIndex,     \* currentIndex before the most recent _select_menu call
    lastBool,      \* argument of the most recent set_form_enabled call
    lastData,      \* expected content after the most recent table write
    returned,      \* value returned by the most recent get_table_data call
    prevRows,      \* rowCount() before the most recent table write
    run,           \* panel -> rest widths at the start of the last clean toggles
    stMsg, stDur,  \* arguments of the most recent show_status_message call
    stElapsed,     \* ms elapsed since that call (saturating)
    stLive,        \* no show_status/show_success call was made since
    lastLoading,   \* argument of the most recent set_loading_visible call
    fbMsg,         \* argument of the most recent show_success_animation call
    fbPhases,      \* phases seen of a feedback sequence no other call overlaps
    lastToggle,    \* the toggle call of the most recent step: panel, width read,
                   \* direction of the animation that was in flight
    toggled        \* panel -> target of its most recent toggle, target of the
                   \* animation that toggle overlapped, and whether an animation
                   \* was dropped since the panel was last toggled at rest

menuVars   == <<selected, checked, currentIndex, title>>
tableVars  == <<table, lastData, returned, prevRows>>
panelVars  == <<minW, maxW, width, anims, run, lastToggle, toggled>>
feedVars   == <<fbEffect, opacity, fbGroups>>
statusVars == <<credits, timers, stMsg, stDur, stElapsed, stLive, fbMsg, fbPhases>>
loadVars   == <<loadingVisible, stackVisible, lastLoading>>
histVars   == <<clicks, emits, lastClicked, lastEmitted, observed, lastMenu, prevIndex,
                lastBool>>
vars == <<pc, connected, selected, checked, currentIndex, title, enabled,
          table, minW, maxW, width, anims, credits, timers, fbEffect,
          opacity, fbGroups, clicks, emits, lastClicked, lastEmitted, lastOp, lastMenu, prevIndex,
          lastBool, lastData, returned, prevRows, run, stMsg, stDur, stElapsed, stLive,
          loadingVisible, stackVisible, lastLoading, fbMsg, fbPhases,
          lastToggle, toggled, observed>>

----------------------------------------------------------------------------
(* Bounds of the model *)

MaxClicks == 2      \* menu-button clicks per behaviour
MaxTimers == 2      \* pending single-shot timers
MaxAnims  == 2      \* animations in flight per panel / feedback groups
MaxRows   == 2      \* rows of a set_table_data argument
TickMs    == 750    \* granularity of simulated time
FrameMs   == 100    \* time between two frames of a width animation

(* Program constants (milliseconds, pixels) *)

StatusDuration == 3000
PanelDuration  == 300
FadeInMs       == 200
HoldMs         == 1200
FadeOutMs      == 400
MenuExpanded   == 240
MenuCollapsed  == 60
ExtraExpanded  == 240
ExtraCollapsed == 0

Min(a, b) == IF a < b THEN a ELSE b
Max(a, b) == IF a > b THEN a ELSE b

----------------------------------------------------------------------------
(* Texts *)

home     == <<"h","o","m","e">>
widgets  == <<"w","i","d","g","e","t","s">>
new      == <<"n","e","w">>
new_page == <<"n","e","w","_","p","a","g","e">>
Home     == <<"H","o","m","e">>

\* keys of self._menu_buttons, in insertion order
MenuOrder == <<home, widgets, new>>
MenuIds   == {MenuOrder[i] : i \in 1..Len(MenuOrder)}
\* ids that name no menu item
UnknownIds == {new_page, Home}
SelectArgs == MenuIds \cup UnknownIds

Lowers == <<"a","d","e","g","h","i","m","n","o","p","s","t","w">>
Uppers == <<"A","D","E","G","H","I","M","N","O","P","S","T","W">>

IsLower(c) == \E i \in 1..Len(Lowers) : Lowers[i] = c
IsUpper(c) == \E i \in 1..Len(Uppers) : Uppers[i] = c
IsCased(c) == IsLower(c) \/ IsUpper(c)
Upper(c) == IF IsLower(c)
            THEN Uppers[CHOOSE i \in 1..Len(Lowers) : Lowers[i] = c] ELSE c
Lower(c) == IF IsUpper(c)
            THEN Lowers[CHOOSE i \in 1..Len(Uppers) : Uppers[i] = c] ELSE c

\* str.replace(old, new) for one-character old and new
Replace(s, old, nw) == [i \in 1..Len(s) |-> IF s[i] = old THEN nw ELSE s[i]]

\* str.title(): a cased character is upper-cased when the character before it
\* is uncased (or there is none), lower-cased otherwise
TitleCase(s) ==
    [i \in 1..Len(s) |->
        IF ~IsCased(s[i]) THEN s[i]
        ELSE IF i > 1 /\ IsCased(s[i-1]) THEN Lower(s[i]) ELSE Upper(s[i])]

\* a title that keeps the underscores of the id
PageTitleRaw(menu) == TitleCase(menu)

\* page_title = menu.replace("_", " ").title()
PageTitle(menu) == TitleCase(Replace(menu, "_", " "))

DefaultStatusText == <<"By: Wanderson M. Pimenta">>
ReadyText         == <<"Ready">>
SavedText         == <<"Saved successfully!">>
SaveTriggeredText == <<"Save action triggered">>
\* f"Switched to {menu.title()} page"
SwitchedText(menu) == <<"Switched to ">> \o TitleCase(menu) \o <<" page">>

\* messages a caller passes to show_status_message
Messages == {<<"X">>, <<"Y">>}
\* durations a caller passes to show_status_message
Durations == {0, TickMs, StatusDuration}

----------------------------------------------------------------------------
(* Widgets *)

MenuButton == [m \in MenuIds |->
    IF m = home THEN "btn_home" ELSE IF m = widgets THEN "btn_widgets" ELSE "btn_new"]

\* controls set_form_enabled writes
FormControls ==
    {MenuButton[m] : m \in MenuIds} \cup
    {"btn_save", "btn_exit", "toggleButton", "toggleLeftBox", "settingsTopBtn",
     "minimizeAppBtn", "maximizeRestoreAppBtn", "closeAppBtn"}

\* buttons whose click only opens a modal message box
MessageButtons ==
    {"btn_adjustments", "btn_more", "btn_message", "btn_print", "btn_logout"}

\* controls whose clicked signal _connect_signals connects to a handler
WiredControls ==
    {"toggleButton", "toggleLeftBox", "extraCloseColumnBtn", "settingsTopBtn",
     "btn_save", "btn_exit"} \cup
    {MenuButton[m] : m \in MenuIds} \cup
    {"minimizeAppBtn", "maximizeRestoreAppBtn", "closeAppBtn"} \cup
    MessageButtons

Controls == FormControls \cup WiredControls

\* index_map = {"home": 0, "widgets": 1, "new": 2}
IndexMapKeys == {home, widgets, new}
IndexMap == [m \in IndexMapKeys |->
    IF m = home THEN 0 ELSE IF m = widgets THEN 1 ELSE 2]

\* the item each page of stackedWidget belongs to, in addWidget order:
\* home_page, widgets_page, new_page
StackPages == <<home, widgets, new>>

Panels == {"mainMenu", "extraLeft", "extraRight"}
Collapsed(p) == IF p = "mainMenu" THEN MenuCollapsed ELSE ExtraCollapsed
Expanded(p)  == IF p = "mainMenu" THEN MenuExpanded ELSE ExtraExpanded

NoToggle == [panel |-> "none", width |-> 0, inflight |-> "none"]
NeverToggled == [target |-> -1, over |-> -1, dropped |-> FALSE]

Columns == <<"name", "category", "status">>
ColumnKeys == {Columns[i] : i \in 1..Len(Columns)}
NoItem == [item |-> FALSE, text |-> ""]

----------------------------------------------------------------------------
(* State after _build_ui, _connect_signals and _apply_styles *)

Init ==
    /\ pc = "select_home"
    /\ connected = FALSE
    /\ selected = [m \in MenuIds |-> FALSE]
    /\ checked = [m \in MenuIds |-> FALSE]
    /\ currentIndex = 0
    /\ title = <<"H","o","m","e">>
    /\ enabled = [c \in Controls |-> TRUE]
    /\ table = <<>>
    /\ minW = [p \in Panels |-> IF p = "mainMenu" THEN MenuExpanded ELSE 0]
    /\ maxW = [p \in Panels |-> IF p = "mainMenu" THEN MenuExpanded ELSE 0]
    /\ width = [p \in Panels |-> IF p = "mainMenu" THEN MenuExpanded ELSE 0]
    /\ anims = [p \in Panels |-> <<>>]
    /\ credits = DefaultStatusText
    /\ timers = <<>>
    /\ fbEffect = FALSE
    /\ opacity = 1000
    /\ fbGroups = <<>>
    /\ clicks = 0
    /\ emits = 0
    /\ lastClicked = <<>>
    /\ lastEmitted = <<>>
    /\ observed = [selected |-> {}, index |-> 0, title |-> <<>>]
    /\ lastOp = "build_ui"
    /\ lastMenu = <<>>
    /\ prevIndex = 0
    /\ lastBool = TRUE
    /\ lastData = <<>>
    /\ returned = <<>>
    /\ prevRows = 0
    /\ run = [p \in Panels |-> <<>>]
    /\ stMsg = <<>>
    /\ stDur = 0
    /\ stElapsed = 0
    /\ stLive = FALSE
    /\ loadingVisible = FALSE
    /\ stackVisible = TRUE
    /\ lastLoading = FALSE
    /\ fbMsg = <<>>
    /\ fbPhases = <<>>
    /\ lastToggle = NoToggle
    /\ toggled = [p \in Panels |-> NeverToggled]

----------------------------------------------------------------------------
(* Menu selection *)

\* _select_menu that marks the new item without clearing the others
SelectMenuSticky(menu) ==
    /\ selected' = [m \in MenuIds |-> selected[m] \/ m = menu]
    /\ checked' = [m \in MenuIds |-> checked[m] \/ m = menu]
    /\ currentIndex' = IF menu \in DOMAIN IndexMap THEN IndexMap[menu]
                       ELSE currentIndex
    /\ title' = PageTitle(menu)
    /\ lastMenu' = menu
    /\ prevIndex' = currentIndex

\* _select_menu that falls back to the first page for an unknown id
SelectMenuFirstPage(menu) ==
    /\ selected' = [m \in MenuIds |-> m = menu]
    /\ checked' = [m \in MenuIds |-> m = menu]
    /\ currentIndex' = IF menu \in DOMAIN IndexMap THEN IndexMap[menu] ELSE 0
    /\ title' = PageTitle(menu)
    /\ lastMenu' = menu
    /\ prevIndex' = currentIndex

\* MainWindowView._select_menu(menu)
SelectMenu(menu) ==
    /\ selected' = [m \in MenuIds |-> m = menu]
    /\ checked' = [m \in MenuIds |-> m = menu]
    /\ currentIndex' = IF menu \in DOMAIN IndexMap THEN IndexMap[menu]
                       ELSE currentIndex
    /\ title' = PageTitle(menu)
    /\ lastMenu' = menu
    /\ prevIndex' = currentIndex

\* show_status_message that never schedules the reversion
ShowStatusMessageNoTimer(message, duration) ==
    /\ credits' = message
    /\ timers' = timers
    /\ stMsg' = message
    /\ stDur' = duration
    /\ stElapsed' = 0
    /\ stLive' = TRUE
    /\ fbPhases' = <<>>
    /\ fbMsg' = fbMsg

\* MainWindowView.show_status_message(message, duration)
ShowStatusMessage(message, duration) ==
    /\ credits' = message
    /\ timers' = IF duration # 0 THEN Append(timers, duration) ELSE timers
    /\ stMsg' = message
    /\ stDur' = duration
    /\ stElapsed' = 0
    /\ stLive' = TRUE
    /\ fbPhases' = <<>>
    /\ fbMsg' = fbMsg

\* MainWindow._on_menu_changed(menu), the slot of menu_changed
OnMenuChanged(menu) ==
    IF connected
    THEN ShowStatusMessage(SwitchedText(menu), StatusDuration)
    ELSE UNCHANGED statusVars

\* _on_menu_clicked that selects without emitting menu_changed
OnMenuClickedSilent(menu) ==
    /\ SelectMenu(menu)
    /\ UNCHANGED <<emits, lastEmitted, observed>>
    /\ UNCHANGED statusVars

\* _on_menu_clicked that emits menu_changed before it selects
OnMenuClickedEmitFirst(menu) ==
    /\ emits' = emits + 1
    /\ lastEmitted' = menu
    /\ observed' = [selected |-> {m \in MenuIds : selected[m]},
                    index |-> currentIndex, title |-> title]
    /\ OnMenuChanged(menu)
    /\ SelectMenu(menu)

\* MainWindowView._on_menu_clicked(menu): the slots of menu_changed run inside
\* emit(), after _select_menu has returned
OnMenuClicked(menu) ==
    /\ SelectMenu(menu)
    /\ emits' = emits + 1
    /\ lastEmitted' = menu
    /\ observed' = [selected |-> {m \in MenuIds : selected'[m]},
                    index |-> currentIndex', title |-> title']
    /\ OnMenuChanged(menu)

\* the user clicks the menu button of `menu`
MenuClicked(menu) ==
    /\ pc = "running"
    /\ enabled[MenuButton[menu]]
    /\ clicks < MaxClicks
    /\ Len(timers) < MaxTimers
    /\ OnMenuClicked(menu)
    /\ clicks' = clicks + 1
    /\ lastClicked' = menu
    /\ lastOp' = "menu_click"
    /\ UNCHANGED <<pc, connected, enabled, lastBool>>
    /\ UNCHANGED <<tableVars, panelVars, feedVars, loadVars>>

\* a programmatic select(menu), with any string
Select(menu) ==
    /\ pc = "running"
    /\ SelectMenu(menu)
    /\ lastOp' = "select"
    /\ UNCHANGED <<pc, connected, enabled, clicks, emits, lastClicked, lastEmitted,
                   observed, lastBool>>
    /\ UNCHANGED <<tableVars, panelVars, feedVars, statusVars, loadVars>>

----------------------------------------------------------------------------
(* Enabling and disabling controls *)

\* MainWindowView.set_form_enabled(b): the controls after the call
FormEnabled(en, b) == [c \in Controls |-> IF c \in FormControls THEN b ELSE en[c]]

SetFormEnabled(b) ==
    /\ pc = "running"
    /\ enabled' = FormEnabled(enabled, b)
    /\ lastBool' = b
    /\ lastOp' = "set_form_enabled"
    /\ UNCHANGED <<pc, connected, clicks, emits, lastClicked, lastEmitted, observed,
                   lastMenu, prevIndex>>
    /\ UNCHANGED <<menuVars, tableVars, panelVars, feedVars, statusVars, loadVars>>

----------------------------------------------------------------------------
(* Loading indicator *)

\* set_loading_visible that shows the indicator over the page stack
SetLoadingVisibleOverlay(visible) ==
    /\ pc = "running"
    /\ loadingVisible' = visible
    /\ stackVisible' = (stackVisible /\ ~visible)
    /\ lastLoading' = visible
    /\ lastOp' = "set_loading_visible"
    /\ UNCHANGED <<pc, connected, enabled, histVars>>
    /\ UNCHANGED <<menuVars, tableVars, panelVars, feedVars, statusVars>>

\* MainWindowView.set_loading_visible(visible)
SetLoadingVisible(visible) ==
    /\ pc = "running"
    /\ loadingVisible' = visible
    /\ stackVisible' = ~visible
    /\ lastLoading' = visible
    /\ lastOp' = "set_loading_visible"
    /\ UNCHANGED <<pc, connected, enabled, histVars>>
    /\ UNCHANGED <<menuVars, tableVars, panelVars, feedVars, statusVars>>

----------------------------------------------------------------------------
(* Construction: MainWindowView.__init__ lines 71-73, then MainWindow.__init__ *)

\* a constructor that leaves out the startup selection
InitSelectHomeSkipped ==
    /\ pc = "select_home"
    /\ pc' = "form_enabled"
    /\ lastOp' = "init_select"
    /\ UNCHANGED <<connected, enabled, histVars>>
    /\ UNCHANGED <<menuVars, tableVars, panelVars, feedVars, statusVars, loadVars>>

\* self._select_menu("home")
InitSelectHome ==
    /\ pc = "select_home"
    /\ SelectMenu(home)
    /\ pc' = "form_enabled"
    /\ lastOp' = "init_select"
    /\ UNCHANGED <<connected, enabled, clicks, emits, lastClicked, lastEmitted,
                   observed, lastBool>>
    /\ UNCHANGED <<tableVars, panelVars, feedVars, statusVars, loadVars>>

\* self.set_form_enabled(True)
InitFormEnabled ==
    /\ pc = "form_enabled"
    /\ enabled' = FormEnabled(enabled, TRUE)
    /\ lastBool' = TRUE
    /\ pc' = "status_ready"
    /\ lastOp' = "init_form_enabled"
    /\ UNCHANGED <<connected, clicks, emits, lastClicked, lastEmitted, observed,
                   lastMenu, prevIndex>>
    /\ UNCHANGED <<menuVars, tableVars, panelVars, feedVars, statusVars, loadVars>>

\* self.show_status_message("Ready")
InitShowStatus ==
    /\ pc = "status_ready"
    /\ ShowStatusMessage(ReadyText, StatusDuration)
    /\ pc' = "connect_view"
    /\ lastOp' = "init_status"
    /\ UNCHANGED <<connected, enabled, histVars>>
    /\ UNCHANGED <<menuVars, tableVars, panelVars, feedVars, loadVars>>

\* MainWindow._connect_view_signals()
ConnectViewSignals ==
    /\ pc = "connect_view"
    /\ connected' = TRUE
    /\ pc' = "populate"
    /\ lastOp' = "connect_view_signals"
    /\ UNCHANGED <<enabled, histVars>>
    /\ UNCHANGED <<menuVars, tableVars, panelVars, feedVars, statusVars, loadVars>>

----------------------------------------------------------------------------
(* Table data *)

\* texts of the cells of a record passed to set_table_data
CellTexts == {"x"}
\* records: partial maps over the three keys
Records == UNION {[S -> CellTexts] : S \in SUBSET ColumnKeys}
DataArgs == UNION {[1..n -> Records] : n \in 0..MaxRows}

\* demo_rows of MainWindow._populate_demo_data
DemoRows == <<
    [name |-> "Navigation Drawer", category |-> "Layouts", status |-> "Stable"],
    [name |-> "Charts", category |-> "Visualization", status |-> "Beta"],
    [name |-> "Dialogs", category |-> "Components", status |-> "Stable"] >>

\* QTableWidgetItem(text)
NewItem(text) == [item |-> TRUE, text |-> text]

\* setRowCount that only ever adds rows
SetRowCountGrowOnly(t, n) ==
    [i \in 1..Max(n, Len(t)) |->
        IF i <= Len(t) THEN t[i] ELSE [c \in ColumnKeys |-> NoItem]]

\* QTableWidget.setRowCount(n): rows beyond n are dropped, new rows have no items
SetRowCount(t, n) ==
    [i \in 1..n |-> IF i <= Len(t) THEN t[i] ELSE [c \in ColumnKeys |-> NoItem]]

\* QTableWidget.setItem(row, column, item)
SetItem(t, row, col, it) == [t EXCEPT ![row][col] = it]

\* dict.get(key, default)
RecordGet(record, key, default) ==
    IF key \in DOMAIN record THEN record[key] ELSE default

\* set_table_data with the columns of category and status exchanged
FillRowSwapped(t, row, record) ==
    SetItem(SetItem(SetItem(t,
        row, "name", NewItem(RecordGet(record, "name", ""))),
        row, "status", NewItem(RecordGet(record, "category", ""))),
        row, "category", NewItem(RecordGet(record, "status", "")))

\* the three setItem calls of one iteration of the loop of set_table_data
FillRow(t, row, record) ==
    SetItem(SetItem(SetItem(t,
        row, "name", NewItem(RecordGet(record, "name", ""))),
        row, "category", NewItem(RecordGet(record, "category", ""))),
        row, "status", NewItem(RecordGet(record, "status", "")))

RECURSIVE FillRows(_, _, _)
FillRows(t, data, row) ==
    IF row > Len(data) THEN t
    ELSE FillRows(FillRow(t, row, data[row]), data, row + 1)

\* MainWindowView.set_table_data(data): the table after the call
TableAfterSet(t, data) == FillRows(SetRowCount(t, Len(data)), data, 1)

\* MainWindowView._item_text(row, column)
ItemText(t, row, col) == IF t[row][col].item THEN t[row][col].text ELSE ""

\* MainWindowView.get_table_data(): the value returned
TableData(t) ==
    [row \in 1..Len(t) |->
        [name |-> ItemText(t, row, "name"),
         category |-> ItemText(t, row, "category"),
         status |-> ItemText(t, row, "status")]]

SetTableData(data) ==
    /\ pc = "running"
    /\ table' = TableAfterSet(table, data)
    /\ lastData' = data
    /\ prevRows' = Len(table)
    /\ returned' = <<>>
    /\ lastOp' = "set_table_data"
    /\ UNCHANGED <<pc, connected, enabled, histVars>>
    /\ UNCHANGED <<menuVars, panelVars, feedVars, statusVars, loadVars>>

\* MainWindowView.clear_table()
ClearTable ==
    /\ pc = "running"
    /\ table' = SetRowCount(table, 0)
    /\ lastData' = <<>>
    /\ prevRows' = Len(table)
    /\ returned' = <<>>
    /\ lastOp' = "clear_table"
    /\ UNCHANGED <<pc, connected, enabled, histVars>>
    /\ UNCHANGED <<menuVars, panelVars, feedVars, statusVars, loadVars>>

GetTableData ==
    /\ pc = "running"
    /\ returned' = TableData(table)
    /\ lastOp' = IF lastOp \in {"set_table_data", "populate"} THEN "get_after_set"
                 ELSE "get_table_data"
    /\ UNCHANGED <<table, lastData, prevRows>>
    /\ UNCHANGED <<pc, connected, enabled, histVars>>
    /\ UNCHANGED <<menuVars, panelVars, feedVars, statusVars, loadVars>>

\* MainWindow._populate_demo_data(), the last step of MainWindow.__init__
PopulateDemoData ==
    /\ pc = "populate"
    /\ table' = TableAfterSet(table, DemoRows)
    /\ lastData' = DemoRows
    /\ prevRows' = Len(table)
    /\ returned' = <<>>
    /\ pc' = "running"
    /\ lastOp' = "populate"
    /\ UNCHANGED <<connected, enabled, histVars>>
    /\ UNCHANGED <<menuVars, panelVars, feedVars, statusVars, loadVars>>

----------------------------------------------------------------------------
(* Panel width animations *)

\* widths the enclosing layout may allot to a panel before clamping; the
\* share depends on the window size and on size hints
LayoutShares == {0, 150, 400}

\* QWidget geometry: a width is bounded by the maximum, then raised to the minimum
Clamp(w, mn, mx) == Max(Min(w, mx), mn)

\* QEasingCurve.InOutCubic, argument and value in thousandths
Ease(t) ==
    IF t < 500 THEN (4 * t * t * t) \div 1000000
    ELSE 1000 - (((2000 - 2 * t) * (2000 - 2 * t) * (2000 - 2 * t)) \div 2000000)

\* current value of a QPropertyAnimation on minimumWidth
AnimValue(a) ==
    LET e == Ease((a.elapsed * 1000) \div PanelDuration)
    IN  IF a.target >= a.start
        THEN a.start + (((a.target - a.start) * e) \div 1000)
        ELSE a.start - (((a.start - a.target) * e) \div 1000)

\* the threshold test written with >= instead of >
ToggleTargetGeq(p, current_width) ==
    IF current_width >= Collapsed(p) THEN Collapsed(p) ELSE Expanded(p)

\* a toggle that keeps a direction: while an animation is in flight the target
\* is the extent opposite to that animation's target
ToggleTargetByDirection(p, current_width) ==
    IF anims[p] # <<>>
    THEN (IF anims[p][Len(anims[p])].target = Collapsed(p) THEN Expanded(p)
          ELSE Collapsed(p))
    ELSE IF current_width > Collapsed(p) THEN Collapsed(p) ELSE Expanded(p)

\* target = collapsed if current_width > collapsed else expanded
ToggleTarget(p, current_width) ==
    IF current_width > Collapsed(p) THEN Collapsed(p) ELSE Expanded(p)

\* only toggle_menu raises the maximum width before it animates
MaxAtToggle(p, mx) == IF p = "mainMenu" THEN MenuExpanded ELSE mx

\* the running animations write minimumWidth in start order; one that reaches
\* its duration writes its end value and runs finalize()
RECURSIVE FrameBounds(_, _, _)
FrameBounds(as, mn, mx) ==
    IF as = <<>> THEN [min |-> mn, max |-> mx]
    ELSE LET a == [Head(as) EXCEPT !.elapsed = Min(@ + FrameMs, PanelDuration)]
         IN  IF a.elapsed >= PanelDuration
             THEN FrameBounds(Tail(as), a.target, a.target)
             ELSE FrameBounds(Tail(as), AnimValue(a), mx)

StillRunning(a) == a.elapsed + FrameMs < PanelDuration
AdvanceAnims(as) ==
    LET rest == SelectSeq(as, StillRunning)
    IN  [i \in 1..Len(rest) |-> [rest[i] EXCEPT !.elapsed = @ + FrameMs]]

\* direction of the most recently started of the animations as
Direction(as) ==
    IF as = <<>> THEN "none"
    ELSE IF as[Len(as)].target > as[Len(as)].start THEN "expanding"
    ELSE "collapsing"

\* a toggle whose animation runs, and finishes, ahead of the ones in flight
TogglePanelAhead(p, keep) ==
    LET current_width == width[p]
        target == ToggleTarget(p, current_width)
        mx == MaxAtToggle(p, maxW[p])
        old == IF keep THEN anims[p] ELSE <<>>
    IN  /\ keep => (anims[p] # <<>> /\ Len(anims[p]) < MaxAnims)
        /\ maxW' = [maxW EXCEPT ![p] = mx]
        /\ minW' = [minW EXCEPT ![p] = current_width]
        /\ anims' = [anims EXCEPT ![p] =
                <<[start |-> current_width, target |-> target, elapsed |-> 0]>> \o old]
        /\ \E share \in LayoutShares :
                width' = [width EXCEPT ![p] = Clamp(share, current_width, mx)]
        /\ run' = [run EXCEPT ![p] =
                IF anims[p] # <<>> THEN <<>>
                ELSE IF @ = <<>> THEN <<current_width>>
                ELSE <<@[Len(@)], current_width>>]
        /\ lastToggle' = [panel |-> p, width |-> current_width,
                          inflight |-> Direction(anims[p])]
        /\ toggled' = [toggled EXCEPT ![p] =
                [target |-> target,
                 over |-> IF keep THEN anims[p][Len(anims[p])].target ELSE -1,
                 dropped |-> anims[p] # <<>> /\ (@.dropped \/ ~keep)]]

\* toggle_menu / toggle_extra_left_box / toggle_extra_right_box on panel p.
\* keep: whether the animation object whose reference is replaced keeps running
TogglePanel(p, keep) ==
    LET current_width == width[p]
        target == ToggleTarget(p, current_width)
        mx == MaxAtToggle(p, maxW[p])
        old == IF keep THEN anims[p] ELSE <<>>
    IN  /\ keep => (anims[p] # <<>> /\ Len(anims[p]) < MaxAnims)
        /\ maxW' = [maxW EXCEPT ![p] = mx]
        /\ minW' = [minW EXCEPT ![p] = current_width]
        /\ anims' = [anims EXCEPT ![p] =
                old \o <<[start |-> current_width, target |-> target, elapsed |-> 0]>>]
        /\ \E share \in LayoutShares :
                width' = [width EXCEPT ![p] = Clamp(share, current_width, mx)]
        /\ run' = [run EXCEPT ![p] =
                IF anims[p] # <<>> THEN <<>>
                ELSE IF @ = <<>> THEN <<current_width>>
                ELSE <<@[Len(@)], current_width>>]
        /\ lastToggle' = [panel |-> p, width |-> current_width,
                          inflight |-> Direction(anims[p])]
        /\ toggled' = [toggled EXCEPT ![p] =
                [target |-> target,
                 over |-> IF keep THEN anims[p][Len(anims[p])].target ELSE -1,
                 dropped |-> anims[p] # <<>> /\ (@.dropped \/ ~keep)]]

PanelButtons ==
    {"toggleButton", "toggleLeftBox", "extraCloseColumnBtn", "settingsTopBtn"}
\* the panel the handler of a button toggles (_connect_signals, _on_settings_clicked)
PanelOf(c) == IF c = "toggleButton" THEN "mainMenu"
              ELSE IF c = "settingsTopBtn" THEN "extraRight" ELSE "extraLeft"

\* a button inside a panel can be clicked only while the panel has some width
Reachable(c) ==
    /\ c \in {"extraCloseColumnBtn", "btn_message", "btn_print", "btn_logout"}
            => width["extraLeft"] > 0
    /\ c \in {"btn_adjustments", "btn_more"} => width["extraRight"] > 0

\* panel p is as construction left it
Untouched(p) ==
    /\ anims[p] = <<>> /\ run[p] = <<>> /\ toggled[p] = NeverToggled
    /\ width[p] = (IF p = "mainMenu" THEN MenuExpanded ELSE 0)

\* the panels share no state: a behaviour exercises one of them
OnePanel(p) == \A q \in Panels \ {p} : Untouched(q)

\* the user clicks one of the buttons that toggle a panel
PanelButtonClicked(c, keep) ==
    /\ pc = "running"
    /\ enabled[c]
    /\ Reachable(c)
    /\ OnePanel(PanelOf(c))
    /\ TogglePanel(PanelOf(c), keep)
    /\ lastOp' = "toggle"
    /\ UNCHANGED <<pc, connected, enabled, histVars>>
    /\ UNCHANGED <<menuVars, tableVars, feedVars, statusVars, loadVars>>

\* buttons whose handler changes nothing in the view: a modal message box, or
\* a signal no slot is connected to (exit_requested, window_control_requested)
InertButtons ==
    MessageButtons \cup
    {"btn_exit", "minimizeAppBtn", "maximizeRestoreAppBtn", "closeAppBtn"}

InertButtonClicked(c) ==
    /\ pc = "running"
    /\ enabled[c]
    /\ Reachable(c)
    /\ lastOp' = "click"
    /\ UNCHANGED <<pc, connected, enabled, histVars>>
    /\ UNCHANGED <<menuVars, tableVars, panelVars, feedVars, statusVars, loadVars>>

\* widths the layout may give a panel whose bounds are mn and mx
LayoutWidths(mn, mx) == {Clamp(share, mn, mx) : share \in LayoutShares}

\* one frame of the width animations: FrameMs pass on the animation clock,
\* every running animation writes its value, then the layout settles
AnimFrame ==
    /\ pc = "running"
    /\ \E p \in Panels : anims[p] # <<>>
    /\ minW' = [p \in Panels |-> FrameBounds(anims[p], minW[p], maxW[p]).min]
    /\ maxW' = [p \in Panels |-> FrameBounds(anims[p], minW[p], maxW[p]).max]
    /\ anims' = [p \in Panels |-> AdvanceAnims(anims[p])]
    /\ width' \in {w \in [Panels -> UNION {LayoutWidths(minW'[p], maxW'[p]) : p \in Panels}] :
                    \A p \in Panels : w[p] \in LayoutWidths(minW'[p], maxW'[p])}
    /\ lastOp' = "frame"
    /\ lastToggle' = NoToggle
    /\ UNCHANGED <<run, toggled>>
    /\ UNCHANGED <<pc, connected, enabled, histVars>>
    /\ UNCHANGED <<menuVars, tableVars, feedVars, statusVars, loadVars>>

----------------------------------------------------------------------------
(* Feedback messages *)

FeedbackDuration == FadeInMs + HoldMs + FadeOutMs

\* the animation group whose fade-out never writes the opacity
GroupOpacityNoFadeOut(e0, e1, cur) ==
    IF e0 < FadeInMs THEN (Min(e1, FadeInMs) * 1000) \div FadeInMs
    ELSE cur

\* opacity written by a group that advances from e0 to e1 ms; cur is kept
\* during the pause
GroupOpacity(e0, e1, cur) ==
    IF e1 >= FadeInMs + HoldMs
    THEN 1000 - ((Min(e1 - FadeInMs - HoldMs, FadeOutMs) * 1000) \div FadeOutMs)
    ELSE IF e0 < FadeInMs THEN (Min(e1, FadeInMs) * 1000) \div FadeInMs
    ELSE cur

\* the groups advance in start order; st = [effect, opacity, text]; a group
\* that reaches its duration runs reset_text()
RECURSIVE FeedFrame(_, _)
FeedFrame(gs, st) ==
    IF gs = <<>> THEN st
    ELSE LET e0 == Head(gs)
             e1 == Min(e0 + TickMs, FeedbackDuration)
         IN  IF e1 >= FeedbackDuration
             THEN FeedFrame(Tail(gs),
                    [effect |-> FALSE, opacity |-> 1000, text |-> DefaultStatusText])
             ELSE FeedFrame(Tail(gs),
                    [st EXCEPT !.opacity =
                        IF st.effect THEN GroupOpacity(e0, e1, @) ELSE @])

\* the member of the sequential group that is current e ms after its start
PhaseAt(e) ==
    IF e < FadeInMs THEN "fade_in"
    ELSE IF e < FadeInMs + HoldMs THEN "hold"
    ELSE IF e < FeedbackDuration THEN "fade_out"
    ELSE "done"

\* the phases seen so far of the tracked sequence, once the groups are gs
SeenPhases(seen, gs) ==
    IF seen = <<>> \/ seen[Len(seen)] = "done" THEN seen
    ELSE LET ph == IF gs = <<>> THEN "done" ELSE PhaseAt(gs[1])
         IN  IF ph = seen[Len(seen)] THEN seen ELSE Append(seen, ph)

GroupRunning(e) == e + TickMs < FeedbackDuration
AdvanceGroups(gs) ==
    LET rest == SelectSeq(gs, GroupRunning)
    IN  [i \in 1..Len(rest) |-> rest[i] + TickMs]

\* show_success_animation: the effect and the animation group.
\* keep: whether the group whose reference is replaced keeps running
StartFeedback(keep) ==
    /\ keep => (fbGroups # <<>> /\ Len(fbGroups) < MaxAnims)
    /\ fbEffect' = TRUE
    /\ opacity' = 0
    /\ fbGroups' = (IF keep THEN fbGroups ELSE <<>>) \o <<0>>

\* MainWindowView.show_success_animation(message)
ShowSuccess(message, keep) ==
    /\ pc = "running"
    /\ StartFeedback(keep)
    /\ credits' = message
    /\ stLive' = FALSE
    /\ fbMsg' = message
    /\ fbPhases' = (IF fbGroups = <<>> THEN <<"fade_in">> ELSE <<>>)
    /\ lastOp' = "show_success"
    /\ UNCHANGED <<timers, stMsg, stDur, stElapsed>>
    /\ UNCHANGED <<pc, connected, enabled, histVars>>
    /\ UNCHANGED <<menuVars, tableVars, panelVars, loadVars>>

\* MainWindowView.show_status_message(message, duration) called by a controller
ShowStatus(message, duration) ==
    /\ pc = "running"
    /\ Len(timers) < MaxTimers
    /\ ShowStatusMessage(message, duration)
    /\ lastOp' = "show_status"
    /\ UNCHANGED <<pc, connected, enabled, histVars>>
    /\ UNCHANGED <<menuVars, tableVars, panelVars, feedVars, loadVars>>

\* a save handler that shows the status message first and the feedback after
SaveClickedStatusFirst(keep) ==
    /\ pc = "running"
    /\ enabled["btn_save"]
    /\ connected
    /\ Len(timers) < MaxTimers
    /\ StartFeedback(keep)
    /\ credits' = SavedText
    /\ timers' = Append(timers, StatusDuration)
    /\ stMsg' = SaveTriggeredText
    /\ stDur' = StatusDuration
    /\ stElapsed' = 0
    /\ stLive' = TRUE
    /\ fbPhases' = <<>>
    /\ fbMsg' = fbMsg
    /\ lastOp' = "btn_save"
    /\ UNCHANGED <<pc, connected, enabled, histVars>>
    /\ UNCHANGED <<menuVars, tableVars, panelVars, loadVars>>

\* the user clicks btn_save: save_requested, then MainWindow._on_save_requested
SaveClicked(keep) ==
    /\ pc = "running"
    /\ enabled["btn_save"]
    /\ connected
    /\ Len(timers) < MaxTimers
    /\ StartFeedback(keep)
    /\ ShowStatusMessage(SaveTriggeredText, StatusDuration)
    /\ lastOp' = "btn_save"
    /\ UNCHANGED <<pc, connected, enabled, histVars>>
    /\ UNCHANGED <<menuVars, tableVars, panelVars, loadVars>>

----------------------------------------------------------------------------
(* Time and the event loop *)

Due(ts) == {i \in 1..Len(ts) : ts[i] <= 0}

\* TickMs pass; the feedback animation groups advance
Tick ==
    /\ pc = "running"
    /\ Due(timers) = {}
    /\ timers' = [i \in 1..Len(timers) |-> Max(timers[i] - TickMs, 0)]
    /\ stElapsed' = IF stLive THEN Min(stElapsed + TickMs, StatusDuration)
                    ELSE stElapsed
    /\ LET f == FeedFrame(fbGroups,
                    [effect |-> fbEffect, opacity |-> opacity, text |-> credits])
       IN  /\ fbEffect' = f.effect
           /\ opacity' = f.opacity
           /\ credits' = f.text
    /\ fbGroups' = AdvanceGroups(fbGroups)
    /\ fbPhases' = SeenPhases(fbPhases, fbGroups')
    /\ lastOp' = "tick"
    /\ UNCHANGED <<stMsg, stDur, stLive, fbMsg>>
    /\ UNCHANGED <<pc, connected, enabled, histVars>>
    /\ UNCHANGED <<menuVars, tableVars, panelVars, loadVars>>

\* a due timer whose callback leaves the label as it is
TimerFireIdle ==
    /\ pc = "running"
    /\ Due(timers) # {}
    /\ LET i == CHOOSE j \in Due(timers) : \A k \in Due(timers) : j <= k
       IN  timers' = [j \in 1..(Len(timers) - 1) |->
                        IF j < i THEN timers[j] ELSE timers[j + 1]]
    /\ credits' = credits
    /\ lastOp' = "timer"
    /\ UNCHANGED <<stMsg, stDur, stElapsed, stLive, fbMsg, fbPhases>>
    /\ UNCHANGED <<pc, connected, enabled, histVars>>
    /\ UNCHANGED <<menuVars, tableVars, panelVars, feedVars, loadVars>>

\* the lambda of QTimer.singleShot in show_status_message: a due timer fires
TimerFire ==
    /\ pc = "running"
    /\ Due(timers) # {}
    /\ LET i == CHOOSE j \in Due(timers) : \A k \in Due(timers) : j <= k
       IN  timers' = [j \in 1..(Len(timers) - 1) |->
                        IF j < i THEN timers[j] ELSE timers[j + 1]]
    /\ credits' = DefaultStatusText
    /\ lastOp' = "timer"
    /\ UNCHANGED <<stMsg, stDur, stElapsed, stLive, fbMsg, fbPhases>>
    /\ UNCHANGED <<pc, connected, enabled, histVars>>
    /\ UNCHANGED <<menuVars, tableVars, panelVars, feedVars, loadVars>>

----------------------------------------------------------------------------
(* Specifications *)

Construct ==
    \/ InitSelectHome
    \/ InitFormEnabled
    \/ InitShowStatus
    \/ ConnectViewSignals
    \/ PopulateDemoData

\* menu selection, with the status messages its clicks cause
Next ==
    \/ Construct
    \/ \E m \in SelectArgs : Select(m)
    \/ \E m \in MenuIds : MenuClicked(m)
    \/ Tick
    \/ TimerFire

Spec == Init /\ [][Next]_vars

\* table data
NextTable ==
    \/ Construct
    \/ \E data \in DataArgs : SetTableData(data)
    \/ ClearTable
    \/ GetTableData

SpecTable == Init /\ [][NextTable]_vars

\* panels and the buttons of the view
NextPanels ==
    \/ Construct
    \/ \E c \in PanelButtons, keep \in BOOLEAN : PanelButtonClicked(c, keep)
    \/ \E c \in InertButtons : InertButtonClicked(c)
    \/ \E b \in BOOLEAN : SetFormEnabled(b)
    \/ AnimFrame

SpecPanels == Init /\ [][NextPanels]_vars

\* status and feedback messages
NextStatus ==
    \/ Construct
    \/ \E m \in Messages, d \in Durations : ShowStatus(m, d)
    \/ \E m \in Messages \cup {SavedText}, keep \in BOOLEAN : ShowSuccess(m, keep)
    \/ \E keep \in BOOLEAN : SaveClicked(keep)
    \/ Tick
    \/ TimerFire

SpecStatus == Init /\ [][NextStatus]_vars

\* the calls a controller makes on the view: select, set_form_enabled and
\* set_loading_visible
NextPages ==
    \/ Construct
    \/ \E m \in SelectArgs : Select(m)
    \/ \E b \in BOOLEAN : SetFormEnabled(b)
    \/ \E b \in BOOLEAN : SetLoadingVisible(b)

SpecPages == Init /\ [][NextPages]_vars

\* the status label in the running application: the user's menu clicks and
\* saves, as MainWindow wires them
NextApp ==
    \/ Construct
    \/ \E m \in MenuIds : MenuClicked(m)
    \/ \E keep \in BOOLEAN : SaveClicked(keep)
    \/ Tick
    \/ TimerFire

SpecApp == Init /\ [][NextApp]_vars

\* status and feedback messages with nonzero durations, under the event
\* loop's scheduling: the constructors run to their end, time passes while a
\* timer or an animation group is pending, and a due timer fires
NextQuiet ==
    \/ Construct
    \/ \E m \in Messages, d \in Durations \ {0} : ShowStatus(m, d)
    \/ \E m \in Messages, keep \in BOOLEAN : ShowSuccess(m, keep)
    \/ \E keep \in BOOLEAN : SaveClicked(keep)
    \/ Tick
    \/ TimerFire

SpecQuiet ==
    /\ Init /\ [][NextQuiet]_vars
    /\ WF_vars(Construct) /\ WF_vars(Tick) /\ WF_vars(TimerFire)

----------------------------------------------------------------------------
(* Properties *)

SelectedIds == {m \in MenuIds : selected[m]}
CheckedIds  == {m \in MenuIds : checked[m]}

\* C1: after every _select_menu call with the id of a menu item, exactly one
\* menu item is selected and checked, and it is the id of the most recent call.
C1_ExactlyOneSelected ==
    lastMenu \in MenuIds => (SelectedIds = {lastMenu} /\ CheckedIds = {lastMenu})

C1_Witness ==
    /\ lastOp = "select" /\ lastMenu = widgets /\ clicks = 1
    /\ selected[widgets] /\ ~selected[home]

\* C2: a select with an id that names no menu item leaves no item selected or
\* checked and leaves the current page as it was before the call.
C2_UnknownIdKeepsPage ==
    (lastOp = "select" /\ lastMenu \in UnknownIds)
        => (SelectedIds = {} /\ CheckedIds = {} /\ currentIndex = prevIndex)

C2_Witness ==
    /\ lastOp = "select" /\ lastMenu = new_page
    /\ prevIndex = 2 /\ currentIndex = 2 /\ SelectedIds = {}

\* C3: menu_changed is emitted once per menu-button click, with the id of the
\* button, and never during construction.
C3_OneEmissionPerClick ==
    /\ emits = clicks
    /\ lastEmitted = lastClicked
    /\ pc # "running" => emits = 0

C3_Witness ==
    /\ clicks = 2 /\ emits = 2 /\ lastOp = "select"
    /\ lastEmitted = widgets /\ lastMenu = new

\* C4: the controller connects its slots only after the startup selection and
\* set_form_enabled(True); from the end of the view's construction until the
\* event loop starts, home is selected, the home page is current, and every
\* control set_form_enabled governs is enabled.
C4_StartupBeforeWiring ==
    /\ connected => pc \in {"populate", "running"}
    /\ lastOp \in {"init_status", "connect_view_signals", "populate"}
        => /\ SelectedIds = {home}
           /\ currentIndex = IndexMap[home]
           /\ \A c \in FormControls : enabled[c]

C4_Witness ==
    /\ pc = "populate" /\ connected /\ lastOp = "connect_view_signals"
    /\ selected[home] /\ currentIndex = 0 /\ lastBool

\* the records get_table_data returns for rows written from data
Defaulted(data) ==
    [i \in 1..Len(data) |->
        [c \in ColumnKeys |-> IF c \in DOMAIN data[i] THEN data[i][c] ELSE ""]]

\* C5: get_table_data right after set_table_data(records) returns as many
\* records, in the same order, each with the three keys; a present field keeps
\* its value and an absent one is the empty string.
C5_TableRoundTrip ==
    lastOp = "get_after_set" =>
        /\ Len(returned) = Len(lastData)
        /\ \A i \in 1..Len(lastData) :
            /\ DOMAIN returned[i] = ColumnKeys
            /\ \A c \in ColumnKeys :
                returned[i][c] = IF c \in DOMAIN lastData[i] THEN lastData[i][c]
                                 ELSE ""

C5_Witness ==
    /\ lastOp = "get_after_set" /\ Len(lastData) = 2
    /\ DOMAIN lastData[1] = {"category"} /\ DOMAIN lastData[2] = ColumnKeys
    /\ returned[1].category = "x" /\ returned[1].status = ""

\* C6: whatever was in the table before, get_table_data returns exactly the
\* records of the most recent set_table_data, or nothing after a clear_table.
C6_SetReplacesRows ==
    lastOp \in {"get_after_set", "get_table_data"} => returned = Defaulted(lastData)

C6_Witness ==
    /\ lastOp = "get_after_set" /\ prevRows = 3 /\ Len(lastData) = 1
    /\ Len(returned) = 1

\* C7: a panel at rest at an extent that is toggled twice, the first animation
\* finishing before the second toggle, is back at the first extent when the
\* second animation has finished.
C7_ToggleTwiceRestores ==
    \A p \in Panels :
        (anims[p] = <<>> /\ Len(run[p]) = 2) =>
            /\ run[p][1] \in {Collapsed(p), Expanded(p)}
            /\ run[p][2] \in {Collapsed(p), Expanded(p)} \ {run[p][1]}
            /\ width[p] = run[p][1]
            /\ minW[p] = width[p] /\ maxW[p] = width[p]

C7_Witness ==
    /\ anims["mainMenu"] = <<>>
    /\ run["mainMenu"] = <<MenuExpanded, MenuCollapsed>>
    /\ width["mainMenu"] = MenuExpanded /\ lastOp = "frame"

\* the state right after a show_status_message call
AfterStatusCall == lastOp \in {"show_status", "init_status", "btn_save", "menu_click"}

\* C8: show_status_message(X, d) with d > 0 shows X at once; with no further
\* call, once d ms have passed and the due timers have fired, the label shows
\* the idle default text.
C8_StatusReverts ==
    /\ (AfterStatusCall /\ stDur > 0) => credits = stMsg
    /\ (stLive /\ stDur > 0 /\ stElapsed >= stDur /\ Due(timers) = {})
            => credits = DefaultStatusText

C8_Witness ==
    /\ stLive /\ stMsg = <<"X">> /\ stDur = StatusDuration
    /\ stElapsed >= stDur /\ Due(timers) = {}
    /\ credits = DefaultStatusText

\* C9: after show_status_message(X, 0), with no further show_status or
\* show_success call, the label keeps showing X.
C9_StickyStatus ==
    (stLive /\ stDur = 0) => credits = stMsg

\* C10: after set_form_enabled(b) every control wired in _connect_signals has
\* enabled = b, and while the form is disabled no click runs a handler.
C10_FormEnabledUniform ==
    /\ lastOp = "set_form_enabled" => \A c \in WiredControls : enabled[c] = lastBool
    /\ (pc = "running" /\ ~lastBool) => lastOp \notin {"toggle", "click"}

\* C11: the loading indicator and the page stack are never both shown nor both
\* hidden: the page stack is shown from construction on, and after a
\* set_loading_visible(b) call the indicator is shown iff b is true.
C11_LoadingExclusive ==
    /\ loadingVisible # stackVisible
    /\ pc # "running" => stackVisible
    /\ lastOp = "set_loading_visible" => loadingVisible = lastLoading

C11_Witness ==
    /\ lastOp = "set_loading_visible" /\ lastLoading
    /\ loadingVisible /\ ~stackVisible /\ currentIndex = 1

PhaseRank(ph) ==
    IF ph = "fade_in" THEN 1 ELSE IF ph = "hold" THEN 2
    ELSE IF ph = "fade_out" THEN 3 ELSE 4

\* opacity of a lone feedback sequence e ms after its start, in thousandths
OpacityAt(e) ==
    IF e < FadeInMs THEN (e * 1000) \div FadeInMs
    ELSE IF e < FadeInMs + HoldMs THEN 1000
    ELSE 1000 - (((e - FadeInMs - HoldMs) * 1000) \div FadeOutMs)

\* C12: a show_success_animation(message) sequence that no other call
\* overlaps shows message at the call with opacity 0, goes through fade-in,
\* hold and fade-out in that order with the opacity of each phase, and when it
\* completes the label shows the idle default text and the effect is cleared.
C12_FeedbackSequence ==
    fbPhases # <<>> =>
        /\ \A i \in 1..(Len(fbPhases) - 1) :
                PhaseRank(fbPhases[i]) < PhaseRank(fbPhases[i + 1])
        /\ fbPhases[1] = "fade_in"
        /\ lastOp = "show_success" => (credits = fbMsg /\ opacity = 0 /\ fbEffect)
        /\ fbPhases[Len(fbPhases)] # "done" =>
                /\ Len(fbGroups) = 1 /\ fbEffect
                /\ fbPhases[Len(fbPhases)] = PhaseAt(fbGroups[1])
                /\ opacity = OpacityAt(fbGroups[1])
        /\ fbPhases[Len(fbPhases)] = "done" =>
                (credits = DefaultStatusText /\ ~fbEffect /\ fbGroups = <<>>)

C12_Witness ==
    /\ fbPhases = <<"fade_in", "hold", "fade_out", "done">>
    /\ fbMsg = <<"X">> /\ credits = DefaultStatusText /\ ~fbEffect
    /\ lastOp = "tick"

Between(w, a, b) == Min(a, b) <= w /\ w <= Max(a, b)

\* the animation the panel's animation reference holds
Current(p) == anims[p][Len(anims[p])]

\* C13: a panel with no animation in flight has its width at one of its two
\* extents, with minimum and maximum width equal to it; while an animation is
\* in flight the width is between that animation's start and end values.
C13_WidthWithinAnimation ==
    \A p \in Panels :
        /\ anims[p] = <<>> =>
                /\ width[p] \in {Collapsed(p), Expanded(p)}
                /\ minW[p] = width[p] /\ maxW[p] = width[p]
        /\ anims[p] # <<>> =>
                Between(width[p], Current(p).start, Current(p).target)

\* C14: a toggle starts from the width it reads and targets the collapsed
\* extent iff that width exceeds the collapsed extent, the expanded extent
\* otherwise; so a toggle made while an animation is in flight, at a width
\* strictly between the extents, targets the collapsed extent whichever way
\* that animation runs.
C14_ThresholdTarget ==
    lastToggle.panel \in Panels =>
        LET p == lastToggle.panel
            w == lastToggle.width
        IN  /\ anims[p] # <<>>
            /\ Current(p).start = w
            /\ Current(p).target =
                    (IF w > Collapsed(p) THEN Collapsed(p) ELSE Expanded(p))
            /\ (lastToggle.inflight # "none" /\ Collapsed(p) < w /\ w < Expanded(p))
                    => Current(p).target = Collapsed(p)

C14_Witness ==
    /\ lastToggle.panel = "mainMenu" /\ lastToggle.inflight = "expanding"
    /\ MenuCollapsed < lastToggle.width /\ lastToggle.width < MenuExpanded
    /\ Current("mainMenu").target = MenuCollapsed /\ lastOp = "toggle"

\* the human-readable form of each id a select is made with
Readable(menu) ==
    IF menu = home THEN <<"H","o","m","e">>
    ELSE IF menu = widgets THEN <<"W","i","d","g","e","t","s">>
    ELSE IF menu = new THEN <<"N","e","w">>
    ELSE IF menu = new_page THEN <<"N","e","w"," ","P","a","g","e">>
    ELSE <<"H","o","m","e">>

\* C15: after a select(itemId) the title is itemId with underscores turned
\* into spaces and in title case; for the id of a menu item the current page
\* is that item's page, so the selected item, the page shown and the title
\* name one item.
C15_PageAndTitleFollowSelection ==
    lastMenu \in SelectArgs =>
        /\ title = Readable(lastMenu)
        /\ lastMenu \in MenuIds =>
                /\ StackPages[currentIndex + 1] = lastMenu
                /\ SelectedIds = {StackPages[currentIndex + 1]}
                /\ title = Readable(StackPages[currentIndex + 1])

C15_Witness ==
    /\ lastOp = "select" /\ lastMenu = widgets /\ prevIndex = 0
    /\ currentIndex = 1 /\ title = <<"W","i","d","g","e","t","s">>
    /\ SelectedIds = {widgets}

\* C16: a toggle made while an animation is in flight leaves that animation
\* running; when no started animation is dropped, the animations of a panel
\* finish in the order they were started, and once all have finished the
\* panel's minimum and maximum width equal the target of the most recent
\* toggle.
C16_LastToggleWins ==
    \A p \in Panels :
        ~toggled[p].dropped =>
            /\ \A i, j \in 1..Len(anims[p]) :
                    i < j => anims[p][i].elapsed >= anims[p][j].elapsed
            /\ (lastToggle.panel = p /\ lastToggle.inflight # "none")
                    => (Len(anims[p]) >= 2 /\ Current(p).elapsed = 0)
            /\ (anims[p] = <<>> /\ toggled[p].target >= 0)
                    => (minW[p] = toggled[p].target /\ maxW[p] = toggled[p].target)

C16_Witness ==
    /\ anims["extraLeft"] = <<>> /\ ~toggled["extraLeft"].dropped
    /\ toggled["extraLeft"].over = ExtraExpanded
    /\ toggled["extraLeft"].target = ExtraCollapsed
    /\ minW["extraLeft"] = ExtraCollapsed /\ maxW["extraLeft"] = ExtraCollapsed

\* C17: a message shown by show_status_message(m, d) with d > 0 is on the
\* label until d ms have passed since the call, unless a later
\* show_status_message or show_success_animation call replaces it; the timer
\* of an earlier call does not end it sooner.
C17_MessageLastsItsDuration ==
    (stLive /\ stDur > 0 /\ stElapsed < stDur) => credits = stMsg

\* the state is within the life of the status message of the last save
AfterSave == stLive /\ stMsg = SaveTriggeredText

\* C18: when the save handler returns the label shows "Save action
\* triggered"; "Saved successfully!" is on the label in no state the event loop
\* sees; once the feedback sequence of the save is over the label shows the
\* idle default text, while the 3000 ms timer of the status message is still
\* pending.
C18_SaveHandlerLabel ==
    /\ lastOp = "btn_save" => credits = SaveTriggeredText
    /\ credits # SavedText
    /\ (AfterSave /\ stElapsed >= FeedbackDuration) => credits = DefaultStatusText
    /\ (AfterSave /\ stElapsed < stDur)
            => (timers # <<>> /\ timers[Len(timers)] = stDur - stElapsed)

C18_Witness ==
    /\ AfterSave /\ lastOp = "tick"
    /\ stElapsed >= FeedbackDuration /\ stElapsed < stDur
    /\ credits = DefaultStatusText /\ fbGroups = <<>>
    /\ Len(timers) = 1 /\ timers[1] > 0

\* a step that is a show_status_message or show_success_animation call
CallStep == lastOp' \in {"show_status", "show_success", "btn_save"}

\* C19: when the calls of show_status_message (with nonzero durations) and of
\* show_success_animation come to an end, the label eventually shows the idle
\* default text and keeps it for ever.
C19_Quiescence ==
    []<><<CallStep>>_vars \/ <>[](credits = DefaultStatusText)

C19_Witness ==
    /\ stMsg \in Messages /\ stDur > 0 /\ fbMsg \in Messages
    /\ timers = <<>> /\ fbGroups = <<>> /\ lastOp \in {"tick", "timer"}
    /\ credits = DefaultStatusText

\* C20: on a click of a menu button the selection, the current page and the
\* title are those of the clicked item when menu_changed is emitted, so a slot
\* of menu_changed(id) sees id selected; the controller's slot then leaves
\* "Switched to <Id> page" on the status label when the click is over.
C20_SelectBeforeEmit ==
    /\ emits > 0 =>
            /\ observed.selected = {lastEmitted}
            /\ StackPages[observed.index + 1] = lastEmitted
            /\ observed.title = Readable(lastEmitted)
    /\ lastOp = "menu_click" =>
            credits = <<"Switched to ">> \o Readable(lastClicked) \o <<" page">>

C20_Witness ==
    /\ lastOp = "menu_click" /\ lastClicked = widgets /\ prevIndex = 0
    /\ observed.selected = {widgets} /\ observed.index = 1
    /\ credits = <<"Switched to ", "W","i","d","g","e","t","s", " page">>

====
